---- MODULE Spec2Model ----
(***************************************************************************)
(* GitHubScraper: the request governor (utils/requestWrapper), the time    *)
(* helpers (utils/time) and the crawl controller (Scraper.setup / run).    *)
(*                                                                         *)
(* Spec    : the crawl controller, every remote call going through the     *)
(*           governor, with process kill + restart from the checkpoint.    *)
(* SpecRW  : one call of requestWrapper against a fallible operation and   *)
(*           a clock.                                                      *)
(***************************************************************************)
EXTENDS Integers, Sequences, FiniteSets, TLC

\* ------------------------------------------------------------------ bounds
\* Page size of the window search, scaled down (per_page: 100 in the source).
PerPage == 2
\* Largest retry budget a caller of requestWrapper passes in SpecRW.
MaxRetries == 2
\* Rate-limited failures counted per call in SpecRW.
MaxRateLimited == 2
\* The clock of SpecRW stops at MaxClock ticks of TickMs milliseconds.
MaxClockTicks == 7

\* ------------------------------------------------------- program constants
DefaultRetries == 1
MsPerSecond == 1000
TickMs == 500
DaysPerWeek == 7

\* ---------------------------------------------------------------- calendar
\* A 'YYYY-MM-DD' string is the triple <<year, month, day>>.
IsLeap(y) == (y % 4 = 0 /\ y % 100 # 0) \/ y % 400 = 0

DaysInMonth(y, m) ==
  IF m = 2 THEN (IF IsLeap(y) THEN 29 ELSE 28)
  ELSE IF m \in {4, 6, 9, 11} THEN 30 ELSE 31

RECURSIVE DaysBeforeMonth(_, _)
DaysBeforeMonth(y, m) ==
  IF m = 1 THEN 0 ELSE DaysBeforeMonth(y, m - 1) + DaysInMonth(y, m - 1)

\* moment(date, 'YYYY-MM-DD'): the day number of a calendar date.
ToDays(d) ==
  LET y == d[1] - 1
  IN  365 * y + (y \div 4) - (y \div 100) + (y \div 400)
        + DaysBeforeMonth(d[1], d[2]) + d[3]

\* Faulty variant: February never has a 29th day.
SubtractDaysNoLeap(d, n) ==
  IF d[3] > n THEN <<d[1], d[2], d[3] - n>>
  ELSE LET py == IF d[2] = 1 THEN d[1] - 1 ELSE d[1]
           pm == IF d[2] = 1 THEN 12 ELSE d[2] - 1
           dim == IF pm = 2 THEN 28 ELSE DaysInMonth(py, pm)
       IN  <<py, pm, d[3] + dim - n>>

\* .subtract(n, 'days') for n below a month: the day of the month is lowered
\* and an underflow borrows from the previous month (and year).
SubtractDays(d, n) ==
  IF d[3] > n THEN <<d[1], d[2], d[3] - n>>
  ELSE LET py == IF d[2] = 1 THEN d[1] - 1 ELSE d[1]
           pm == IF d[2] = 1 THEN 12 ELSE d[2] - 1
       IN  <<py, pm, d[3] + DaysInMonth(py, pm) - n>>

getPreviousWeek(date) == SubtractDays(date, DaysPerWeek)

\* moment(date, 'YYYY-MM-DD').isAfter(ts): midnight of date against a
\* created_at timestamp [day, tod] (tod: seconds into the day).
isAfter(date, ts) ==
  LET a == ToDays(date)
      b == ToDays(ts.day)
  IN  a > b \/ (a = b /\ 0 > ts.tod)

\* ------------------------------------------------------------- remote data
\* An optional numeric field of a repository: <<>> (absent) or <<n>>.
Opt(o) == IF o = <<>> THEN 0 ELSE o[1]

Repo(name, stars, watchers, forks, issues, events, blocked) ==
  [name |-> name, stargazers_count |-> stars, watchers_count |-> watchers,
   forks_count |-> forks, open_issues_count |-> issues,
   events |-> events, blocked |-> blocked]

\* The accounts matching the base query, in the order the search returns them.
\* "b" is created on a window boundary and its second repository is
\* access-blocked; "c" owns no repository; the only repository of "e" is
\* access-blocked.
DataSet ==
  << [login |-> "c", created_at |-> [day |-> <<2020, 3, 5>>, tod |-> 60],
      repos |-> << >>],
     [login |-> "b", created_at |-> [day |-> <<2020, 3, 3>>, tod |-> 0],
      repos |-> << Repo("b1", <<3>>, <<1>>, <<>>, <<4>>, 10, FALSE),
                   Repo("b2", <<>>, <<1>>, <<2>>, <<0>>, 4, TRUE),
                   Repo("b3", <<5>>, <<1>>, <<0>>, <<>>, 7, FALSE) >>],
     [login |-> "d", created_at |-> [day |-> <<2020, 3, 6>>, tod |-> 60],
      repos |-> << Repo("d1", <<5>>, <<1>>, <<>>, <<>>, 1, FALSE) >>],
     [login |-> "e", created_at |-> [day |-> <<2020, 3, 8>>, tod |-> 0],
      repos |-> << Repo("e1", <<>>, <<>>, <<>>, <<>>, 3, TRUE) >>],
     [login |-> "a", created_at |-> [day |-> <<2020, 2, 20>>, tod |-> 3600],
      repos |-> << Repo("a1", <<1>>, <<>>, <<1>>, <<>>, 0, FALSE) >>] >>

\* Accounts whose oldest was created on a day a whole number of weeks before
\* Today.
BoundaryDataSet ==
  << [login |-> "h", created_at |-> [day |-> <<2020, 3, 9>>, tod |-> 0],
      repos |-> << Repo("h1", <<2>>, <<>>, <<>>, <<1>>, 2, FALSE) >>],
     [login |-> "g", created_at |-> [day |-> <<2020, 2, 25>>, tod |-> 3600],
      repos |-> << Repo("g1", <<>>, <<1>>, <<>>, <<>>, 0, FALSE) >>] >>

DataSets == {DataSet, BoundaryDataSet, << >>}

\* The day moment() reports when no checkpoint can be read.
Today == <<2020, 3, 10>>

RECURSIVE SelectSeqBy(_, _, _)
\* The subsequence of s whose created_at day lies in lo..hi (day numbers).
SelectSeqBy(s, lo, hi) ==
  IF s = << >> THEN << >>
  ELSE LET rest == SelectSeqBy(Tail(s), lo, hi)
           n == ToDays(Head(s).created_at.day)
       IN  IF lo <= n /\ n <= hi THEN <<Head(s)>> \o rest ELSE rest

\* GET /search/users q = baseQuery created:from..to, page, per_page: the
\* accounts created from..to (both days included), one page of them.
SearchPage(data, from, to, page) ==
  LET all == SelectSeqBy(data, ToDays(from), ToDays(to))
      lo == (page - 1) * PerPage + 1
      hi == IF page * PerPage < Len(all) THEN page * PerPage ELSE Len(all)
  IN  [i \in 1..(IF hi >= lo THEN hi - lo + 1 ELSE 0) |->
         [login |-> all[lo + i - 1].login]]

\* Timestamp order of two created_at values.
NotLater(t1, t2) ==
  LET a == ToDays(t1.day)
      b == ToDays(t2.day)
  IN  a < b \/ (a = b /\ t1.tod <= t2.tod)

\* GET /search/users q = baseQuery, sort joined asc: the first page and the
\* total count.
SearchOldest(data) ==
  [total_count |-> Len(data),
   items |-> IF data = << >> THEN << >>
             ELSE LET i == CHOOSE i \in 1..Len(data) :
                             \A j \in 1..Len(data) :
                                NotLater(data[i].created_at, data[j].created_at)
                  IN  << [login |-> data[i].login] >>]

Account(data, login) == CHOOSE i \in 1..Len(data) : data[i].login = login

\* GET /users/{username}
GetUser(data, login) ==
  LET o == data[Account(data, login)]
  IN  [login |-> o.login, created_at |-> o.created_at]

\* GET /users/{username}/repos
GetRepos(data, login) == data[Account(data, login)].repos

\* ------------------------------------------------------------------ errors
NoDigits == << >>

\* What request() rejects with: err.response (absent for a network error),
\* its data.message / data.block.reason and its rate-limit headers.
RequestError(id, hasResponse, message, remaining, reset) ==
  [id |-> id, hasResponse |-> hasResponse, message |-> message,
   reason |-> IF message = "Repository access blocked" THEN "tos" ELSE "",
   remaining |-> remaining, reset |-> reset]

NetworkError == RequestError("network", FALSE, "", "", NoDigits)
ServerError == RequestError("http500", TRUE, "Server Error", "5", <<9>>)
NotFound == RequestError("http404", TRUE, "Not Found", "", NoDigits)
RateLimited(reset) == RequestError("http403", TRUE, "API rate limit exceeded", "0", reset)
Blocked == RequestError("blocked", TRUE, "Repository access blocked", "5", <<9>>)
BlockedNoQuota == RequestError("blocked0", TRUE, "Repository access blocked", "0", <<1>>)

NoRejection == RequestError("", FALSE, "", "", NoDigits)

TransientErrors == {NetworkError, ServerError, NotFound}
BlockedErrors == {Blocked, BlockedNoQuota}

\* What requestWrapper throws.
RepoBlocked(reason) == [type |-> "RepoBlocked", info |-> reason]
Rethrown(err) == [type |-> "RequestError", info |-> err.id]
NoError == [type |-> "", info |-> ""]

RECURSIVE Number(_)
\* Number('<digits>')
Number(digits) ==
  IF digits = << >> THEN 0
  ELSE 10 * Number(SubSeq(digits, 1, Len(digits) - 1)) + digits[Len(digits)]

\* ---------------------------------------------------------------- governor
\* Faulty variant: the rate limit is classified before the block.
requestWrapperCatchRateFirst(err, retries) ==
  IF err.hasResponse /\ err.remaining = "0"
  THEN [kind |-> "wait", retries |-> retries, error |-> NoError,
        resetMs |-> (Number(err.reset) + 1) * MsPerSecond]
  ELSE IF err.hasResponse /\ err.message = "Repository access blocked"
  THEN [kind |-> "throw", retries |-> retries,
        error |-> RepoBlocked(err.reason), resetMs |-> 0]
  ELSE IF retries # 0
       THEN [kind |-> "retry", retries |-> retries - 1, error |-> NoError,
             resetMs |-> 0]
       ELSE [kind |-> "throw", retries |-> retries, error |-> Rethrown(err),
             resetMs |-> 0]

\* Faulty variant: a rate-limit wait consumes the retry budget.
requestWrapperCatchWaitCosts(err, retries) ==
  IF err.hasResponse /\ err.message = "Repository access blocked"
  THEN [kind |-> "throw", retries |-> retries,
        error |-> RepoBlocked(err.reason), resetMs |-> 0]
  ELSE IF ~(err.hasResponse /\ err.remaining = "0")
  THEN IF retries # 0
       THEN [kind |-> "retry", retries |-> retries - 1, error |-> NoError,
             resetMs |-> 0]
       ELSE [kind |-> "throw", retries |-> retries, error |-> Rethrown(err),
             resetMs |-> 0]
  ELSE IF retries # 0
       THEN [kind |-> "wait", retries |-> retries - 1, error |-> NoError,
             resetMs |-> (Number(err.reset) + 1) * MsPerSecond]
       ELSE [kind |-> "throw", retries |-> retries, error |-> Rethrown(err),
             resetMs |-> 0]

\* Faulty variant: the budget is not decremented on a transient failure.
requestWrapperCatchNoDecrement(err, retries) ==
  IF err.hasResponse /\ err.message = "Repository access blocked"
  THEN [kind |-> "throw", retries |-> retries,
        error |-> RepoBlocked(err.reason), resetMs |-> 0]
  ELSE IF ~(err.hasResponse /\ err.remaining = "0")
  THEN IF retries # 0
       THEN [kind |-> "retry", retries |-> retries, error |-> NoError,
             resetMs |-> 0]
       ELSE [kind |-> "throw", retries |-> retries, error |-> Rethrown(err),
             resetMs |-> 0]
  ELSE [kind |-> "wait", retries |-> retries, error |-> NoError,
        resetMs |-> (Number(err.reset) + 1) * MsPerSecond]

\* Faulty variant: the one second of margin is left out.
requestWrapperCatchNoMargin(err, retries) ==
  IF err.hasResponse /\ err.message = "Repository access blocked"
  THEN [kind |-> "throw", retries |-> retries,
        error |-> RepoBlocked(err.reason), resetMs |-> 0]
  ELSE IF ~(err.hasResponse /\ err.remaining = "0")
  THEN IF retries # 0
       THEN [kind |-> "retry", retries |-> retries - 1, error |-> NoError,
             resetMs |-> 0]
       ELSE [kind |-> "throw", retries |-> retries, error |-> Rethrown(err),
             resetMs |-> 0]
  ELSE [kind |-> "wait", retries |-> retries, error |-> NoError,
        resetMs |-> Number(err.reset) * MsPerSecond]

\* The catch block of requestWrapper: what the call does after request()
\* rejected with err while the budget is retries.
\*   throw : the call fails with error
\*   retry : request() is invoked again at once with the budget lowered
\*   wait  : the call sleeps until resetMs, then invokes request() again
requestWrapperCatch(err, retries) ==
  IF err.hasResponse /\ err.message = "Repository access blocked"
  THEN [kind |-> "throw", retries |-> retries,
        error |-> RepoBlocked(err.reason), resetMs |-> 0]
  ELSE IF ~(err.hasResponse /\ err.remaining = "0")
  THEN IF retries # 0
       THEN [kind |-> "retry", retries |-> retries - 1, error |-> NoError,
             resetMs |-> 0]
       ELSE [kind |-> "throw", retries |-> retries, error |-> Rethrown(err),
             resetMs |-> 0]
  ELSE [kind |-> "wait", retries |-> retries, error |-> NoError,
        resetMs |-> (Number(err.reset) + 1) * MsPerSecond]

\* wait(resetMoment.diff(moment())): setTimeout fires no earlier than the
\* delay, and a delay below 1 ms is 1 ms.
TimerDue(now, resetMs) ==
  LET delay == resetMs - now
  IN  now + (IF delay < 1 THEN 1 ELSE delay)

\* ---------------------------------------------- governor, second variant
\* The rate-limit headers of a response request() resolved with.
Headers(remaining, reset) == [remaining |-> remaining, reset |-> reset]

\* errors/RateLimitError, constructed with the x-ratelimit-reset header: an
\* error whose metadata reports the exhausted quota and the reset instant.
RateLimitError(reset) == RequestError("RateLimitError", TRUE, "", "0", reset)

\* The catch block of the variant: no block check; whatever does not report
\* zero remaining quota is retried while the budget lasts.
requestWrapper2Catch(err, retries) ==
  IF ~(err.hasResponse /\ err.remaining = "0")
  THEN IF retries # 0
       THEN [kind |-> "retry", retries |-> retries - 1, error |-> NoError,
             resetMs |-> 0]
       ELSE [kind |-> "throw", retries |-> retries, error |-> Rethrown(err),
             resetMs |-> 0]
  ELSE [kind |-> "wait", retries |-> retries, error |-> NoError,
        resetMs |-> (Number(err.reset) + 1) * MsPerSecond]

\* What the try block raises into the catch block for a resolved response
\* (NoRejection when it returns the data).
requestWrapper2Try(headers) ==
  IF headers.remaining = "0" THEN RateLimitError(headers.reset)
  ELSE NoRejection

\* The outcomes of request(): resolved with headers, or rejected.
Resolved(headers) == [ok |-> TRUE, headers |-> headers, err |-> NoRejection]
Rejected(err) == [ok |-> FALSE, headers |-> Headers("", NoDigits), err |-> err]

\* What enters the catch block for an outcome of request() (NoRejection when
\* the data is returned).
Caught(out) == IF out.ok THEN requestWrapper2Try(out.headers) ELSE out.err

\* Faulty variant: the RateLimitError is raised outside the try block.
requestWrapper2Uncaught(out, retries) ==
  IF out.ok
  THEN IF out.headers.remaining = "0"
       THEN [kind |-> "throw", retries |-> retries,
             error |-> Rethrown(RateLimitError(out.headers.reset)),
             resetMs |-> 0]
       ELSE [kind |-> "return", retries |-> retries, error |-> NoError,
             resetMs |-> 0]
  ELSE requestWrapper2Catch(out.err, retries)

\* One pass through the variant for an outcome of request().
requestWrapper2(out, retries) ==
  IF Caught(out) = NoRejection
  THEN [kind |-> "return", retries |-> retries, error |-> NoError,
        resetMs |-> 0]
  ELSE requestWrapper2Catch(Caught(out), retries)

\* -------------------------------------------------------------- checkpoint
NoFile == [present |-> FALSE, nextPageToScrape |-> 0, searchingDate |-> << >>,
           organizations |-> << >>]

\* utils/json saveJSONFile: the document replaces the file as a whole.
saveJSONFile(doc) == doc

\* utils/json readJSONFile: whether the file can be read and parsed (it
\* throws otherwise).
CanRead(f) == f.present

\* Scraper.saveToFile: the file after the call.
saveToFile(page, d, orgs) ==
  saveJSONFile([present |-> TRUE, nextPageToScrape |-> page,
                searchingDate |-> d, organizations |-> orgs])

\* Scraper.readFile: the checkpoint's triple, or the defaults when
\* readJSONFile throws.
readFile(f) ==
  IF CanRead(f)
  THEN [nextPageToScrape |-> f.nextPageToScrape, date |-> f.searchingDate,
        organizations |-> f.organizations]
  ELSE [nextPageToScrape |-> 1, date |-> Today, organizations |-> << >>]

\* ---------------------------------------------------------------- entities
RECURSIVE Reduce(_)
\* ns.reduce((acc, n) => acc + n, 0)
Reduce(ns) == IF ns = << >> THEN 0 ELSE Head(ns) + Reduce(Tail(ns))

\* Faulty variant: the star total is taken from the watcher counts.
StarsFromWatchers(r) == Opt(r.watchers_count)

Stars(r) == Opt(r.stargazers_count)
Watchers(r) == Opt(r.watchers_count)
Forks(r) == Opt(r.forks_count)
OpenIssues(r) == Opt(r.open_issues_count)
Events(r) == r.last_90_days_events_count

\* repos.push({ ...repo, last_90_days_events_count })
RepoWithEvents(repo, count) ==
  [name |-> repo.name, stargazers_count |-> repo.stargazers_count,
   watchers_count |-> repo.watchers_count, forks_count |-> repo.forks_count,
   open_issues_count |-> repo.open_issues_count,
   last_90_days_events_count |-> count]

\* The Organization assembled from the profile and the enriched repositories.
Organization(user, rs) ==
  [login |-> user.login, createdAt |-> user.created_at,
   totalRepoStars |-> Reduce([i \in 1..Len(rs) |-> Stars(rs[i])]),
   totalRepoWatchers |-> Reduce([i \in 1..Len(rs) |-> Watchers(rs[i])]),
   totalRepoForks |-> Reduce([i \in 1..Len(rs) |-> Forks(rs[i])]),
   totalRepoOpenIssues |-> Reduce([i \in 1..Len(rs) |-> OpenIssues(rs[i])]),
   totalRepoLast90DaysEvents |-> Reduce([i \in 1..Len(rs) |-> Events(rs[i])])]

\* An entity of an earlier crawl, as a checkpoint holds it.
Stored(login, day, stars, events) ==
  [login |-> login, createdAt |-> [day |-> day, tod |-> 0],
   totalRepoStars |-> stars, totalRepoWatchers |-> 0, totalRepoForks |-> 0,
   totalRepoOpenIssues |-> 0, totalRepoLast90DaysEvents |-> events]

\* The checkpoints a crawl may find at startup: none, one left in the middle
\* of the first window, one holding an entity the remote no longer lists,
\* and one of a completed crawl.
InitialFiles ==
  { NoFile,
    saveToFile(1, <<2020, 3, 10>>, << Stored("b", <<2020, 3, 3>>, 3, 2) >>),
    saveToFile(2, <<2020, 3, 3>>, << Stored("z", <<2020, 3, 9>>, 0, 0) >>),
    saveToFile(1, <<2020, 2, 18>>, << Stored("d", <<2020, 3, 6>>, 5, 1) >>) }

VARIABLES
  remote,            \* the accounts the remote API serves (fixed)
  file,              \* the checkpoint document at resultLocation
  file0,             \* the checkpoint found at the first startup
  restarted,         \* 0: never killed; 1: killed and started again before
                     \* the run wrote a checkpoint; 2: after it wrote one
  nextPageToScrape, date, organizations, totalCount, oldestOrgDate,
  bootPc,            \* readyPromise: "search", "profile", "resolved", "rejected"
  bootLogin, bootTotal,
  pc,                \* run: "await", "page", "repos", "profile", "events",
                     \*      "done", "failed"
  rwPc, rwRetries,   \* the requestWrapper call in flight
  items, idx, rawRepos, publicUser, repos,
  saves,             \* how often the last step called saveToFile
  thrown,            \* what requestWrapper threw in the last step
  windows,           \* the window ends whose page fetch has resolved
  gPc,               \* SpecRW: "idle", "calling", "waiting", "returned", "thrown"
  gBudget,           \* the retries argument of the call
  gRetries,          \* the budget left
  gInvocations,      \* how often request() was invoked
  gTransient,        \* rejections neither blocked nor rate-limited
  gRateLimited,      \* rate-limited rejections
  gError,            \* what the call threw
  gLast,             \* the last rejection of request()
  gWaitFrom,         \* the clock when the wait began
  gWakeAt,           \* when the timer of wait() is due
  gInvokedAt,        \* the clock at the last invocation of request()
  clock              \* milliseconds

scraperVars ==
  << remote, file, file0, restarted, nextPageToScrape, date, organizations,
     totalCount, oldestOrgDate, bootPc, bootLogin, bootTotal, pc, rwPc,
     rwRetries, items, idx, rawRepos, publicUser, repos, saves, thrown,
     windows >>

governorVars ==
  << gPc, gBudget, gRetries, gInvocations, gTransient, gRateLimited, gError,
     gLast, gWaitFrom, gWakeAt, gInvokedAt, clock >>

vars == << scraperVars, governorVars >>

NoUser == [login |-> "", created_at |-> [day |-> << >>, tod |-> 0]]
NoStamp == [day |-> << >>, tod |-> 0]

\* A faulty variant: a candidate is compared with the last entity only.
SeenLastOnly(orgs, login) ==
  orgs # << >> /\ orgs[Len(orgs)].login = login

\* this.organizations.some((o) => o.login === organization.login)
Seen(orgs, login) == \E i \in 1..Len(orgs) : orgs[i].login = login

\* Faulty variant: the for loop has no test for recorded logins.
FirstNewNoTest(its, i, orgs) == i

RECURSIVE FirstNew(_, _, _)
\* The for loop of run from candidate i on: the first candidate that is not
\* skipped as already recorded (Len(its) + 1 when there is none).
FirstNew(its, i, orgs) ==
  IF i > Len(its) THEN i
  ELSE IF Seen(orgs, its[i].login) THEN FirstNew(its, i + 1, orgs)
  ELSE i

\* Faulty variant: the loop body runs once more, for the window that ends
\* within a week before the lower bound.
LoopHeadWeekLate(d, ts) ==
  IF ToDays(d) + DaysPerWeek > ToDays(ts.day) THEN "page" ELSE "done"

\* Faulty variant: the loop tests the start of the window, not its end.
LoopHeadWindowStart(d, ts) ==
  IF isAfter(getPreviousWeek(d), ts) THEN "page" ELSE "done"

\* The while condition of run: the call site reached next.
LoopHead(d, ts) == IF isAfter(d, ts) THEN "page" ELSE "done"

\* requestWrapper(() => ...) is entered with the default budget; nothing is
\* in flight once run has ended.
Issue(nextPc) ==
  /\ rwPc' = IF nextPc \in {"done", "failed"} THEN "idle" ELSE "calling"
  /\ rwRetries' = DefaultRetries

\* A step in which run writes no checkpoint and no call throws.
Quiet ==
  /\ saves' = 0
  /\ thrown' = NoError
  /\ UNCHANGED windows

NoLocals ==
  /\ items' = << >>
  /\ idx' = 0
  /\ rawRepos' = << >>
  /\ publicUser' = NoUser
  /\ repos' = << >>

\* Faulty variant: the cursor is persisted two pages on.
PageEndSkips(orgs, n) ==
  LET next == LoopHead(date, oldestOrgDate)
  IN  /\ nextPageToScrape' = nextPageToScrape + 2
      /\ file' = saveToFile(nextPageToScrape + 2, date, orgs)
      /\ saves' = n + 1
      /\ organizations' = orgs
      /\ pc' = next
      /\ Issue(next)
      /\ NoLocals
      /\ UNCHANGED date

\* Faulty variant: the page is finished without the cursor being raised.
PageEndStays(orgs, n) ==
  LET next == LoopHead(date, oldestOrgDate)
  IN  /\ nextPageToScrape' = nextPageToScrape
      /\ file' = saveToFile(nextPageToScrape, date, orgs)
      /\ saves' = n + 1
      /\ organizations' = orgs
      /\ pc' = next
      /\ Issue(next)
      /\ NoLocals
      /\ UNCHANGED date

\* Lines 240-242 and the loop condition: the page is finished.
PageEnd(orgs, n) ==
  LET next == LoopHead(date, oldestOrgDate)
  IN  /\ nextPageToScrape' = nextPageToScrape + 1
      /\ file' = saveToFile(nextPageToScrape + 1, date, orgs)
      /\ saves' = n + 1
      /\ organizations' = orgs
      /\ pc' = next
      /\ Issue(next)
      /\ NoLocals
      /\ UNCHANGED date

\* The for loop of run, resumed at candidate i of the page its with the
\* accumulated list orgs and the checkpoint f, written n times in this step:
\* up to the next remote call.
ForLoop(its, i, orgs, f, n) ==
  LET k == FirstNew(its, i, orgs)
  IN  IF k <= Len(its)
      THEN /\ pc' = "repos"
           /\ Issue("repos")
           /\ items' = its
           /\ idx' = k
           /\ rawRepos' = << >>
           /\ publicUser' = NoUser
           /\ repos' = << >>
           /\ organizations' = orgs
           /\ file' = f
           /\ saves' = n
           /\ UNCHANGED << nextPageToScrape, date >>
      ELSE PageEnd(orgs, n)

\* ------------------------------------------------------------------- setup
GovernorIdle ==
  /\ gPc = "idle" /\ gBudget = 0 /\ gRetries = 0 /\ gInvocations = 0
  /\ gTransient = 0 /\ gRateLimited = 0 /\ gError = NoError
  /\ gLast = NoRejection /\ gWaitFrom = 0 /\ gWakeAt = 0 /\ gInvokedAt = 0
  /\ clock = 0

\* Scraper.setup (readFile, then readyPromise up to its first await) followed
\* by run up to `await this.ready`.
Setup(f) ==
  LET r == readFile(f)
  IN  /\ nextPageToScrape' = r.nextPageToScrape
      /\ date' = r.date
      /\ organizations' = r.organizations
      /\ totalCount' = 0
      /\ oldestOrgDate' = NoStamp
      /\ bootPc' = "search"
      /\ bootLogin' = ""
      /\ bootTotal' = 0
      /\ pc' = "await"
      /\ Issue("search")
      /\ NoLocals

Init ==
  /\ remote \in DataSets
  /\ file \in InitialFiles
  /\ file0 = file
  /\ restarted = 0
  /\ nextPageToScrape = readFile(file).nextPageToScrape
  /\ date = readFile(file).date
  /\ organizations = readFile(file).organizations
  /\ totalCount = 0
  /\ oldestOrgDate = NoStamp
  /\ bootPc = "search"
  /\ bootLogin = ""
  /\ bootTotal = 0
  /\ pc = "await"
  /\ rwPc = "calling"
  /\ rwRetries = DefaultRetries
  /\ items = << >>
  /\ idx = 0
  /\ rawRepos = << >>
  /\ publicUser = NoUser
  /\ repos = << >>
  /\ saves = 0
  /\ thrown = NoError
  /\ windows = {}
  /\ GovernorIdle

\* The process is killed (at any point) and started again: setup and run.
Restart ==
  /\ Setup(file)
  /\ Quiet
  /\ restarted' = IF file # file0 THEN 2 ELSE IF restarted = 2 THEN 2 ELSE 1
  /\ UNCHANGED << remote, file, file0, governorVars >>

\* ------------------------------------------------- the call in flight
\* Where the request in flight was issued from.
Site == IF bootPc \in {"search", "profile"} THEN "boot:" \o bootPc ELSE pc

InFlight == rwPc = "calling"

\* The repository whose events are being fetched.
CurrentRepo == rawRepos[Len(repos) + 1]

\* Whether request() can resolve at this site: the events of a blocked
\* repository never do.
CanSucceed == ~(Site = "events" /\ CurrentRepo.blocked)

\* What request() can reject with at this site.
Failures ==
  TransientErrors \cup {RateLimited(<<1>>)}
    \cup (IF Site = "events" /\ ~CurrentRepo.blocked THEN {} ELSE BlockedErrors)

\* Line 21: request() rejected and is invoked again with the budget lowered.
RequestRetried ==
  /\ Quiet
  /\ InFlight
  /\ \E err \in Failures :
       LET c == requestWrapperCatch(err, rwRetries)
       IN  /\ c.kind = "retry"
           /\ rwRetries' = c.retries
  /\ UNCHANGED << remote, file, file0, restarted, nextPageToScrape, date,
                  organizations, totalCount, oldestOrgDate, bootPc, bootLogin,
                  bootTotal, pc, rwPc, items, idx, rawRepos, publicUser,
                  repos, governorVars >>

\* Lines 26-36: request() rejected with the quota exhausted; the call sleeps.
RequestRateLimited ==
  /\ Quiet
  /\ InFlight
  /\ \E err \in Failures :
       LET c == requestWrapperCatch(err, rwRetries)
       IN  /\ c.kind = "wait"
           /\ rwRetries' = c.retries
  /\ rwPc' = "waiting"
  /\ UNCHANGED << remote, file, file0, restarted, nextPageToScrape, date,
                  organizations, totalCount, oldestOrgDate, bootPc, bootLogin,
                  bootTotal, pc, items, idx, rawRepos, publicUser, repos,
                  governorVars >>

\* Lines 38-40: the wait is over and request() is invoked again.
WaitElapsed ==
  /\ Quiet
  /\ rwPc = "waiting"
  /\ rwPc' = "calling"
  /\ UNCHANGED << remote, file, file0, restarted, nextPageToScrape, date,
                  organizations, totalCount, oldestOrgDate, bootPc, bootLogin,
                  bootTotal, pc, rwRetries, items, idx, rawRepos, publicUser,
                  repos, governorVars >>

\* The errors requestWrapper can throw for the call in flight.
Thrown ==
  { requestWrapperCatch(err, rwRetries).error :
      err \in { e \in Failures : requestWrapperCatch(e, rwRetries).kind = "throw" } }

\* --------------------------------------------------------------- bootstrap
\* Lines 64-79: the first-entity search resolved.
BootSearchDone ==
  /\ Quiet
  /\ bootPc = "search" /\ InFlight
  /\ LET res == SearchOldest(remote)
     IN  IF res.items = << >>
         THEN \* oldestOrg is undefined: oldestOrg.login throws inside the
              \* async executor and `ready` is never settled.
              /\ bootPc' = "rejected"
              /\ rwPc' = "idle"
              /\ rwRetries' = DefaultRetries
              /\ UNCHANGED << bootLogin, bootTotal >>
         ELSE /\ bootPc' = "profile"
              /\ bootLogin' = res.items[1].login
              /\ bootTotal' = res.total_count
              /\ Issue("profile")
  /\ UNCHANGED << remote, file, file0, restarted, nextPageToScrape, date,
                  organizations, totalCount, oldestOrgDate, pc, items, idx,
                  rawRepos, publicUser, repos, governorVars >>

\* Lines 80-85: the profile of the oldest entity resolved; res(true).
BootProfileDone ==
  /\ Quiet
  /\ bootPc = "profile" /\ InFlight
  /\ totalCount' = bootTotal
  /\ oldestOrgDate' = GetUser(remote, bootLogin).created_at
  /\ bootPc' = "resolved"
  /\ rwPc' = "idle"
  /\ rwRetries' = DefaultRetries
  /\ UNCHANGED << remote, file, file0, restarted, nextPageToScrape, date,
                  organizations, bootLogin, bootTotal, pc, items, idx,
                  rawRepos, publicUser, repos, governorVars >>

\* A bootstrap call threw: the async executor rejects, res is never called.
BootFailed ==
  /\ bootPc \in {"search", "profile"} /\ InFlight
  /\ \E e \in Thrown : thrown' = e
  /\ saves' = 0
  /\ UNCHANGED windows
  /\ bootPc' = "rejected"
  /\ rwPc' = "idle"
  /\ rwRetries' = DefaultRetries
  /\ UNCHANGED << remote, file, file0, restarted, nextPageToScrape, date,
                  organizations, totalCount, oldestOrgDate, bootLogin,
                  bootTotal, pc, items, idx, rawRepos, publicUser, repos,
                  governorVars >>

\* --------------------------------------------------------------------- run
\* Lines 100-102: `await this.ready` resumes once ready is resolved.
RunReady ==
  /\ Quiet
  /\ pc = "await" /\ bootPc = "resolved"
  /\ pc' = LoopHead(date, oldestOrgDate)
  /\ Issue(LoopHead(date, oldestOrgDate))
  /\ UNCHANGED << remote, file, file0, restarted, nextPageToScrape, date,
                  organizations, totalCount, oldestOrgDate, bootPc, bootLogin,
                  bootTotal, items, idx, rawRepos, publicUser, repos,
                  governorVars >>

\* Faulty variant: an empty page moves on to the next page of the window.
EmptyPageNextCursor ==
  LET next == LoopHead(date, oldestOrgDate)
  IN  /\ nextPageToScrape' = nextPageToScrape + 1
      /\ file' = saveToFile(nextPageToScrape + 1, date, organizations)
      /\ saves' = 1
      /\ pc' = next
      /\ Issue(next)
      /\ NoLocals
      /\ UNCHANGED << date, organizations >>

\* Lines 113-120 and the loop condition: the window is exhausted.
EmptyPage ==
  LET d == getPreviousWeek(date)
      next == LoopHead(d, oldestOrgDate)
  IN  /\ date' = d
      /\ nextPageToScrape' = 1
      /\ file' = saveToFile(1, d, organizations)
      /\ saves' = 1
      /\ pc' = next
      /\ Issue(next)
      /\ NoLocals
      /\ UNCHANGED organizations

\* Lines 105-130: the page of candidates resolved.
PageDone ==
  /\ pc = "page" /\ InFlight
  /\ LET its == SearchPage(remote, getPreviousWeek(date), date, nextPageToScrape)
     IN  IF Len(its) = 0 THEN EmptyPage
         ELSE ForLoop(its, 1, organizations, file, 0)
  /\ thrown' = NoError
  /\ windows' = windows \cup {date}
  /\ UNCHANGED << remote, file0, restarted, totalCount, oldestOrgDate, bootPc,
                  bootLogin, bootTotal, governorVars >>

\* Faulty variant: a candidate without repositories is enriched like any
\* other.
ReposDoneNoSkip ==
  /\ pc = "repos" /\ InFlight
  /\ rawRepos' = GetRepos(remote, items[idx].login)
  /\ pc' = "profile"
  /\ Issue("profile")
  /\ saves' = 0
  /\ thrown' = NoError
  /\ UNCHANGED << file, nextPageToScrape, date, organizations, items, idx,
                  publicUser, repos >>
  /\ UNCHANGED << remote, file0, restarted, totalCount, oldestOrgDate, bootPc,
                  bootLogin, bootTotal, windows, governorVars >>

\* Lines 126-138: the repository list of the candidate resolved.
ReposDone ==
  /\ pc = "repos" /\ InFlight
  /\ LET rs == GetRepos(remote, items[idx].login)
     IN  IF Len(rs) = 0
         THEN ForLoop(items, idx + 1, organizations, file, 0)
         ELSE /\ rawRepos' = rs
              /\ pc' = "profile"
              /\ Issue("profile")
              /\ saves' = 0
              /\ UNCHANGED << file, nextPageToScrape, date, organizations,
                              items, idx, publicUser, repos >>
  /\ thrown' = NoError
  /\ UNCHANGED << remote, file0, restarted, totalCount, oldestOrgDate, bootPc,
                  bootLogin, bootTotal, windows, governorVars >>

\* Lines 134-152: the profile resolved; the first events fetch is issued.
ProfileDone ==
  /\ Quiet
  /\ pc = "profile" /\ InFlight
  /\ publicUser' = GetUser(remote, items[idx].login)
  /\ repos' = << >>
  /\ pc' = "events"
  /\ Issue("events")
  /\ UNCHANGED << remote, file, file0, restarted, nextPageToScrape, date,
                  organizations, totalCount, oldestOrgDate, bootPc, bootLogin,
                  bootTotal, items, idx, rawRepos, governorVars >>

\* Faulty variant: the entity is appended without being persisted.
PushRepoNoSave(count) ==
  LET rs == Append(repos, RepoWithEvents(CurrentRepo, count))
  IN  IF Len(rs) < Len(rawRepos)
      THEN /\ repos' = rs
           /\ Issue("events")
           /\ saves' = 0
           /\ UNCHANGED << file, nextPageToScrape, date, organizations, pc,
                           items, idx, rawRepos, publicUser >>
      ELSE LET orgs == Append(organizations, Organization(publicUser, rs))
           IN  ForLoop(items, idx + 1, orgs, file, 0)

\* Faulty variant: the appended entity is persisted with the next cursor.
PushRepoSavesNextCursor(count) ==
  LET rs == Append(repos, RepoWithEvents(CurrentRepo, count))
  IN  IF Len(rs) < Len(rawRepos)
      THEN /\ repos' = rs
           /\ Issue("events")
           /\ saves' = 0
           /\ UNCHANGED << file, nextPageToScrape, date, organizations, pc,
                           items, idx, rawRepos, publicUser >>
      ELSE LET orgs == Append(organizations, Organization(publicUser, rs))
           IN  ForLoop(items, idx + 1, orgs,
                       saveToFile(nextPageToScrape + 1, date, orgs), 1)

\* Faulty variant: a blocked repository ends the enrichment of the entity.
PushRepoStopsAtBlocked(count) ==
  LET rs == Append(repos, RepoWithEvents(CurrentRepo, count))
  IN  IF Len(rs) < Len(rawRepos) /\ ~CurrentRepo.blocked
      THEN /\ repos' = rs
           /\ Issue("events")
           /\ saves' = 0
           /\ UNCHANGED << file, nextPageToScrape, date, organizations, pc,
                           items, idx, rawRepos, publicUser >>
      ELSE LET orgs == Append(organizations, Organization(publicUser, rs))
           IN  ForLoop(items, idx + 1, orgs,
                       saveToFile(nextPageToScrape, date, orgs), 1)

\* Lines 159-238: the repository is pushed with its event count; after the
\* last one the entity is assembled, appended and persisted, and the for loop
\* goes on.
PushRepo(count) ==
  LET rs == Append(repos, RepoWithEvents(CurrentRepo, count))
  IN  IF Len(rs) < Len(rawRepos)
      THEN /\ repos' = rs
           /\ Issue("events")
           /\ saves' = 0
           /\ UNCHANGED << file, nextPageToScrape, date, organizations, pc,
                           items, idx, rawRepos, publicUser >>
      ELSE LET orgs == Append(organizations, Organization(publicUser, rs))
           IN  ForLoop(items, idx + 1, orgs,
                       saveToFile(nextPageToScrape, date, orgs), 1)

\* Lines 147-153: the events of the repository resolved.
EventsDone ==
  /\ pc = "events" /\ InFlight /\ CanSucceed
  /\ PushRepo(CurrentRepo.events)
  /\ thrown' = NoError
  /\ UNCHANGED windows
  /\ UNCHANGED << remote, file0, restarted, totalCount, oldestOrgDate, bootPc,
                  bootLogin, bootTotal, governorVars >>

\* Faulty variant: the catch of the events fetch swallows every error.
EventsBlockedCatchAll ==
  /\ pc = "events" /\ InFlight
  /\ \E e \in Thrown : thrown' = e
  /\ PushRepo(0)
  /\ UNCHANGED windows
  /\ UNCHANGED << remote, file0, restarted, totalCount, oldestOrgDate, bootPc,
                  bootLogin, bootTotal, governorVars >>

\* Lines 154-157: the events fetch threw RepoBlocked.
EventsBlocked ==
  /\ pc = "events" /\ InFlight
  /\ \E e \in Thrown :
       /\ e.type = "RepoBlocked"
       /\ thrown' = e
  /\ PushRepo(0)
  /\ UNCHANGED windows
  /\ UNCHANGED << remote, file0, restarted, totalCount, oldestOrgDate, bootPc,
                  bootLogin, bootTotal, governorVars >>

\* A call of the window loop threw and nothing caught it: run rejects.
RunFailed ==
  /\ pc \in {"page", "repos", "profile", "events"} /\ InFlight
  /\ \E e \in Thrown :
       /\ pc = "events" => e.type # "RepoBlocked"
       /\ thrown' = e
  /\ saves' = 0
  /\ UNCHANGED windows
  /\ pc' = "failed"
  /\ Issue("failed")
  /\ UNCHANGED << remote, file, file0, restarted, nextPageToScrape, date,
                  organizations, totalCount, oldestOrgDate, bootPc, bootLogin,
                  bootTotal, items, idx, rawRepos, publicUser, repos,
                  governorVars >>

Next ==
  \/ Restart
  \/ RequestRetried
  \/ RequestRateLimited
  \/ WaitElapsed
  \/ BootSearchDone
  \/ BootProfileDone
  \/ BootFailed
  \/ RunReady
  \/ PageDone
  \/ ReposDone
  \/ ProfileDone
  \/ EventsDone
  \/ EventsBlocked
  \/ RunFailed

Spec == Init /\ [][Next]_vars

\* The steps in which a remote call resolves, the rate-limit timer fires or
\* a settled promise resumes its awaiter.
Progress ==
  \/ BootSearchDone
  \/ BootProfileDone
  \/ RunReady
  \/ PageDone
  \/ ReposDone
  \/ ProfileDone
  \/ EventsDone
  \/ EventsBlocked
  \/ WaitElapsed

\* The crawl under a remote that answers every call in the end and an event
\* loop that runs every timer and continuation that is due.
SpecLive == Init /\ [][Next]_vars /\ WF_vars(Progress)

\* ------------------------------------------------------------------ SpecRW
\* One caller of requestWrapper, a fallible request() and a clock.
ScraperIdle ==
  /\ remote = << >> /\ file = NoFile /\ file0 = NoFile /\ restarted = 0
  /\ nextPageToScrape = 1 /\ date = Today /\ organizations = << >>
  /\ totalCount = 0 /\ oldestOrgDate = NoStamp /\ bootPc = "rejected"
  /\ bootLogin = "" /\ bootTotal = 0 /\ pc = "await" /\ rwPc = "idle"
  /\ rwRetries = DefaultRetries /\ items = << >> /\ idx = 0
  /\ rawRepos = << >> /\ publicUser = NoUser /\ repos = << >>
  /\ saves = 0 /\ thrown = NoError /\ windows = {}

InitRW ==
  /\ ScraperIdle
  /\ GovernorIdle

\* What request() can reject with in SpecRW.
Rejections ==
  TransientErrors \cup BlockedErrors \cup {RateLimited(<<1>>), RateLimited(<<2>>)}

\* The budgets callers pass; DefaultRetries when the argument is left out.
Budgets == 0..MaxRetries

\* requestWrapper(request, r) is called: line 13 invokes request().
GCall ==
  /\ gPc = "idle"
  /\ \E r \in Budgets \cup {DefaultRetries} :
       /\ gBudget' = r
       /\ gRetries' = r
  /\ gPc' = "calling"
  /\ gInvocations' = 1
  /\ gInvokedAt' = clock
  /\ UNCHANGED << gTransient, gRateLimited, gError, gLast, gWaitFrom, gWakeAt,
                  clock, scraperVars >>

\* Lines 13-15: request() resolved and its data is returned.
GResolve ==
  /\ gPc = "calling"
  /\ gPc' = "returned"
  /\ UNCHANGED << gBudget, gRetries, gInvocations, gTransient, gRateLimited,
                  gError, gLast, gWaitFrom, gWakeAt, gInvokedAt, clock,
                  scraperVars >>

\* Whether a rejection is neither a block nor a rate limit.
IsTransient(err) == err \in TransientErrors

\* Lines 17-18 and 22-23: request() rejected and the call throws.
GThrow ==
  /\ gPc = "calling"
  /\ \E err \in Rejections :
       LET c == requestWrapperCatch(err, gRetries)
       IN  /\ c.kind = "throw"
           /\ gError' = c.error
           /\ gLast' = err
           /\ gTransient' = gTransient + (IF IsTransient(err) THEN 1 ELSE 0)
  /\ gPc' = "thrown"
  /\ UNCHANGED << gBudget, gRetries, gInvocations, gRateLimited, gWaitFrom,
                  gWakeAt, gInvokedAt, clock, scraperVars >>

\* Line 21: request() rejected and is invoked again with the budget lowered.
GRetry ==
  /\ gPc = "calling"
  /\ \E err \in Rejections :
       LET c == requestWrapperCatch(err, gRetries)
       IN  /\ c.kind = "retry"
           /\ gRetries' = c.retries
           /\ gLast' = err
           /\ gTransient' = gTransient + (IF IsTransient(err) THEN 1 ELSE 0)
  /\ gTransient <= MaxRetries
  /\ gInvocations' = gInvocations + 1
  /\ gInvokedAt' = clock
  /\ UNCHANGED << gPc, gBudget, gRateLimited, gError, gWaitFrom, gWakeAt,
                  clock, scraperVars >>

\* Lines 26-36: request() rejected with the quota exhausted; wait() is
\* entered with the time left until the reset instant plus one second.
GWait ==
  /\ gPc = "calling"
  /\ gRateLimited < MaxRateLimited
  /\ \E err \in Rejections :
       LET c == requestWrapperCatch(err, gRetries)
       IN  /\ c.kind = "wait"
           /\ gRetries' = c.retries
           /\ gLast' = err
           /\ gWakeAt' = TimerDue(clock, c.resetMs)
           /\ gTransient' = gTransient + (IF IsTransient(err) THEN 1 ELSE 0)
  /\ gPc' = "waiting"
  /\ gWaitFrom' = clock
  /\ gRateLimited' = gRateLimited + 1
  /\ UNCHANGED << gBudget, gInvocations, gError, gInvokedAt, clock,
                  scraperVars >>

\* Lines 38-40: the timer fired; request() is invoked again.
GWake ==
  /\ gPc = "waiting"
  /\ clock >= gWakeAt
  /\ gPc' = "calling"
  /\ gInvocations' = gInvocations + 1
  /\ gInvokedAt' = clock
  /\ UNCHANGED << gBudget, gRetries, gTransient, gRateLimited, gError, gLast,
                  gWaitFrom, gWakeAt, clock, scraperVars >>

\* The caller is done with the call and may make another one.
GNext ==
  /\ gPc \in {"returned", "thrown"}
  /\ gPc' = "idle"
  /\ gBudget' = 0
  /\ gRetries' = 0
  /\ gInvocations' = 0
  /\ gTransient' = 0
  /\ gRateLimited' = 0
  /\ gError' = NoError
  /\ gLast' = NoRejection
  /\ gWaitFrom' = 0
  /\ gWakeAt' = 0
  /\ gInvokedAt' = 0
  /\ UNCHANGED << clock, scraperVars >>

\* Time passes.
Tick ==
  /\ clock < MaxClockTicks * TickMs
  /\ clock' = clock + TickMs
  /\ UNCHANGED << gPc, gBudget, gRetries, gInvocations, gTransient,
                  gRateLimited, gError, gLast, gWaitFrom, gWakeAt, gInvokedAt,
                  scraperVars >>

NextRW ==
  \/ GCall
  \/ GResolve
  \/ GThrow
  \/ GRetry
  \/ GWait
  \/ GWake
  \/ GNext
  \/ Tick

SpecRW == InitRW /\ [][NextRW]_vars

\* ----------------------------------------------------------------- SpecRW2
\* One caller of the second variant of requestWrapper.
Outcomes2 ==
  { Resolved(Headers(q, r)) : q \in {"5", "0"}, r \in {<<1>>, <<2>>} }
    \cup { Rejected(err) : err \in Rejections }

\* Lines 13-17: request() resolved with quota left and its data is returned.
G2Return ==
  /\ gPc = "calling"
  /\ \E out \in Outcomes2 : requestWrapper2(out, gRetries).kind = "return"
  /\ gPc' = "returned"
  /\ UNCHANGED << gBudget, gRetries, gInvocations, gTransient, gRateLimited,
                  gError, gLast, gWaitFrom, gWakeAt, gInvokedAt, clock,
                  scraperVars >>

\* Line 23: the budget is used up and the call throws.
G2Throw ==
  /\ gPc = "calling"
  /\ \E out \in Outcomes2 :
       LET c == requestWrapper2(out, gRetries)
       IN  /\ c.kind = "throw"
           /\ gError' = c.error
           /\ gLast' = Caught(out)
           /\ gTransient' = gTransient + (IF out.ok THEN 0 ELSE 1)
  /\ gPc' = "thrown"
  /\ UNCHANGED << gBudget, gRetries, gInvocations, gRateLimited, gWaitFrom,
                  gWakeAt, gInvokedAt, clock, scraperVars >>

\* Line 22: request() is invoked again with the budget lowered.
G2Retry ==
  /\ gPc = "calling"
  /\ \E out \in Outcomes2 :
       LET c == requestWrapper2(out, gRetries)
       IN  /\ c.kind = "retry"
           /\ gRetries' = c.retries
           /\ gLast' = Caught(out)
           /\ gTransient' = gTransient + (IF out.ok THEN 0 ELSE 1)
  /\ gTransient <= MaxRetries
  /\ gInvocations' = gInvocations + 1
  /\ gInvokedAt' = clock
  /\ UNCHANGED << gPc, gBudget, gRateLimited, gError, gWaitFrom, gWakeAt,
                  clock, scraperVars >>

\* Lines 26-36: the quota is exhausted; wait() is entered with the time left
\* until the reset instant plus one second.
G2Wait ==
  /\ gPc = "calling"
  /\ gRateLimited < MaxRateLimited
  /\ \E out \in Outcomes2 :
       LET c == requestWrapper2(out, gRetries)
       IN  /\ c.kind = "wait"
           /\ gRetries' = c.retries
           /\ gLast' = Caught(out)
           /\ gWakeAt' = TimerDue(clock, c.resetMs)
  /\ gPc' = "waiting"
  /\ gWaitFrom' = clock
  /\ gRateLimited' = gRateLimited + 1
  /\ UNCHANGED << gBudget, gInvocations, gTransient, gError, gInvokedAt,
                  clock, scraperVars >>

NextRW2 ==
  \/ GCall
  \/ G2Return
  \/ G2Throw
  \/ G2Retry
  \/ G2Wait
  \/ GWake
  \/ GNext
  \/ Tick

SpecRW2 == InitRW /\ [][NextRW2]_vars

\* ================================================================== claims
Logins(orgs) == { orgs[i].login : i \in 1..Len(orgs) }

DistinctLogins(orgs) ==
  \A i, j \in 1..Len(orgs) : i # j => orgs[i].login # orgs[j].login

\* C1 (Dedup): starting from a checkpoint whose organizations have pairwise
\* distinct logins, neither the accumulated list nor the persisted one ever
\* holds two entities with the same login, whatever the kills and restarts.
C1_NoDuplicateLogins ==
  /\ DistinctLogins(organizations)
  /\ DistinctLogins(file.organizations)

\* C1 witness: after a restart from a checkpoint the run wrote, the for loop
\* stands at a later candidate of a page whose earlier candidate is recorded.
C1_Witness ==
  /\ restarted = 2
  /\ pc = "repos"
  /\ idx > 1
  /\ \E i \in 1..(idx - 1) : Seen(file.organizations, items[i].login)
  /\ Len(organizations) >= 2

RECURSIVE CrawlLogins(_, _, _, _, _)
\* The logins an uninterrupted run ends with: the window loop as a function
\* of the searching date d, the cursor and the logins recorded so far.
CrawlLogins(data, oldest, d, page, logins) ==
  IF ~isAfter(d, oldest) THEN logins
  ELSE LET its == SearchPage(data, getPreviousWeek(d), d, page)
       IN  IF Len(its) = 0
           THEN CrawlLogins(data, oldest, getPreviousWeek(d), 1, logins)
           ELSE CrawlLogins(data, oldest, d, page + 1,
                            logins \cup { its[i].login : i \in
                               { k \in 1..Len(its) :
                                   GetRepos(data, its[k].login) # << >> } })

\* The logins of the run from the first checkpoint that is never killed.
UninterruptedLogins ==
  LET r == readFile(file0)
      first == SearchOldest(remote).items[1].login
  IN  CrawlLogins(remote, GetUser(remote, first).created_at, r.date,
                  r.nextPageToScrape, Logins(r.organizations))

\* C2 (Resume equivalence): a run that reaches completion, however often it
\* was killed and restarted from the persisted checkpoint, ends with the set
\* of logins of the uninterrupted run, in memory and in the checkpoint.
C2_ResumeEquivalence ==
  pc = "done" =>
    /\ Logins(organizations) = UninterruptedLogins
    /\ (file.present \/ file0.present) => Logins(file.organizations) = UninterruptedLogins

\* C2 witness: a crawl from no checkpoint is complete after a restart from a
\* checkpoint the run had written.
C2_Witness ==
  /\ pc = "done"
  /\ restarted = 2
  /\ ~file0.present
  /\ Cardinality(Logins(file.organizations)) >= 4

\* C3 (Window monotonicity): in every step the searching date is unchanged
\* or exactly 7 days earlier, and it is unchanged when the cursor goes up
\* by one.
C3_WindowMonotone ==
  [][ /\ date' = date \/ ToDays(date') = ToDays(date) - 7
      /\ nextPageToScrape' = nextPageToScrape + 1 => date' = date ]_vars

\* C3 witness: the window has moved back twice, across the end of February
\* of a leap year.
C3_Witness ==
  /\ ~file0.present
  /\ date = <<2020, 2, 25>>
  /\ pc = "page"

\* C4 (Empty page): when the page at the cursor is empty, the checkpoint
\* written has cursor 1, the date 7 days earlier and the same organizations,
\* and the next call is a page fetch (or the run is complete).
C4_EmptyPageAdvance ==
  [][ (PageDone /\ Len(SearchPage(remote, getPreviousWeek(date), date,
                                  nextPageToScrape)) = 0)
      => /\ file'.present
         /\ file'.nextPageToScrape = 1
         /\ ToDays(file'.searchingDate) = ToDays(date) - 7
         /\ file'.organizations = organizations
         /\ organizations' = organizations
         /\ nextPageToScrape' = 1
         /\ date' = file'.searchingDate
         /\ pc' \in {"page", "done"} ]_vars

\* C4 witness: a crawl from no checkpoint found page 3 of the first window
\* empty and stands at page 1 of the second.
C4_Witness ==
  /\ ~file0.present
  /\ file = saveToFile(1, <<2020, 3, 3>>, organizations)
  /\ date = <<2020, 3, 3>>
  /\ nextPageToScrape = 1
  /\ pc = "page"

RECURSIVE NonBlockedEvents(_)
\* The events of the repositories that are not access-blocked.
NonBlockedEvents(rs) ==
  IF rs = << >> THEN 0
  ELSE (IF Head(rs).blocked THEN 0 ELSE Head(rs).events)
         + NonBlockedEvents(Tail(rs))

\* The entities the run appended (those after the first checkpoint's).
AppendedByRun == { i \in 1..Len(organizations) :
                     i > Len(readFile(file0).organizations) }

\* C5 (Blocked sub-resource): a RepoBlocked events fetch counts 0 events for
\* that repository and the events fetch of the next repository is issued;
\* every entity the run appended has the event total of its non-blocked
\* repositories and is in the checkpoint.
C5_BlockedTolerance ==
  /\ [](/\ \A i \in AppendedByRun :
             organizations[i].totalRepoLast90DaysEvents
               = NonBlockedEvents(GetRepos(remote, organizations[i].login))
        /\ AppendedByRun # {} => file.organizations = organizations)
  /\ [][ EventsBlocked =>
           LET n == Len(repos) + 1
           IN  IF n < Len(rawRepos)
               THEN /\ pc' = "events" /\ rwPc' = "calling"
                    /\ rawRepos' = rawRepos
                    /\ Len(repos') = n
                    /\ SubSeq(repos', 1, n - 1) = repos
                    /\ repos'[n].name = rawRepos[n].name
                    /\ repos'[n].last_90_days_events_count = 0
               ELSE /\ Len(organizations') = Len(organizations) + 1
                    /\ organizations'[Len(organizations')].login
                         = items[idx].login ]_vars

\* C5 witness: "b", whose second of three repositories is blocked, and "e",
\* whose only repository is blocked, are appended and persisted.
C5_Witness ==
  /\ ~file0.present
  /\ file.organizations = organizations
  /\ \E i, j \in 1..Len(organizations) :
       /\ organizations[i].login = "b"
       /\ organizations[i].totalRepoLast90DaysEvents = 17
       /\ organizations[j].login = "e"
       /\ organizations[j].totalRepoLast90DaysEvents = 0

\* The reset instant (epoch seconds) a rate-limited rejection carries, plus
\* one second, in milliseconds.
ResetPlusOneMs(err) == (Number(err.reset) + 1) * 1000

IsRateLimited(err) ==
  err.hasResponse /\ err.remaining = "0" /\ err \notin BlockedErrors

\* C6 (Permanent block): once request() has rejected with the 'Repository
\* access blocked' payload the call has thrown RepoBlocked with the stated
\* reason, whatever the budget left and the rate-limit headers: it is neither
\* invoking request() again nor waiting.
C6_BlockedFailsAtOnce ==
  gLast \in BlockedErrors =>
    /\ gPc = "thrown"
    /\ gError = [type |-> "RepoBlocked", info |-> gLast.reason]
    /\ ~ENABLED GWake
    /\ ~ENABLED GRetry

\* C6 witness: a block whose headers report no quota left, met with budget
\* left after an earlier rate-limit wait, has thrown RepoBlocked.
C6_Witness ==
  /\ gPc = "thrown"
  /\ gLast = BlockedNoQuota
  /\ gRetries >= 1
  /\ gRateLimited >= 1
  /\ gError.type = "RepoBlocked"

\* C7 (Rate-limit waits keep the budget): the budget left is the budget
\* given minus the transient failures, however many rate-limited failures
\* there were; a call that threw did not throw on a rate-limited failure,
\* and one that threw on a transient failure had budget + 1 of them.
C7_RateLimitKeepsBudget ==
  /\ gPc \in {"calling", "waiting", "returned"} =>
       gRetries = gBudget - gTransient
  /\ gPc = "thrown" => ~IsRateLimited(gLast)
  /\ (gPc = "thrown" /\ gLast \in TransientErrors) =>
       gTransient = gBudget + 1

\* C7 witness: a call with budget 2 that waited twice on the rate limit
\* threw on its third transient failure.
C7_Witness ==
  /\ gPc = "thrown"
  /\ gLast \in TransientErrors
  /\ gBudget = 2
  /\ gRateLimited >= 2
  /\ gTransient = 3

\* C8 (Transient budget): each of the first r transient failures is followed
\* in the same step by a new invocation of request(); the (r+1)-th makes the
\* call throw that error; after a return or a throw request() is not invoked
\* again by this call.
C8_TransientBudget ==
  [][ /\ gTransient' = gTransient + 1 =>
           IF gTransient < gBudget
           THEN /\ gPc' = "calling"
                /\ gInvocations' = gInvocations + 1
                /\ gInvokedAt' = clock
           ELSE /\ gPc' = "thrown"
                /\ gError' = [type |-> "RequestError", info |-> gLast'.id]
                /\ gInvocations' = gInvocations
      /\ gPc \in {"returned", "thrown"} =>
           gPc' = "idle" \/ (gPc' = gPc /\ gInvocations' = gInvocations) ]_vars

\* C8 witness: with budget 2 and no rate limit, request() was invoked three
\* times and the third transient failure surfaced.
C8_Witness ==
  /\ gPc = "thrown"
  /\ gBudget = 2
  /\ gTransient = 3
  /\ gRateLimited = 0
  /\ gInvocations = 3
  /\ gError = [type |-> "RequestError", info |-> gLast.id]

\* C9 (Rate-limit wait bound): the invocation that follows a rate-limited
\* failure with reset instant T is made at a clock of at least T + 1 s; while
\* waiting, the re-invocation is impossible before T + 1 s and possible once
\* T + 1 s is reached (and the timer's minimal delay has passed).
C9_WaitBound ==
  /\ (gPc = "calling" /\ IsRateLimited(gLast)) =>
       gInvokedAt >= ResetPlusOneMs(gLast)
  /\ (gPc = "waiting" /\ clock < ResetPlusOneMs(gLast)) => ~ENABLED GWake
  /\ (gPc = "waiting" /\ clock >= ResetPlusOneMs(gLast) /\ clock > gWaitFrom)
       => ENABLED GWake

\* C9 witness: after a rate-limited failure with reset instant 2 s, met
\* before that instant, request() was invoked again at 3 s.
C9_Witness ==
  /\ gPc = "calling"
  /\ gLast = RateLimited(<<2>>)
  /\ gWaitFrom < 2000
  /\ gInvokedAt = 3000

\* C10 (Bootstrap failures propagate): once a bootstrap call has failed (or
\* the search returned no entity), run has terminated with a failure or is
\* about to: it is not left suspended at `await this.ready`.
C10_BootstrapFailurePropagates ==
  bootPc = "rejected" => (pc = "failed" \/ ENABLED (RunReady \/ RunFailed))

\* Whether the day d (at midnight) is not after the timestamp ts.
DateNotAfter(d, ts) == ToDays(d) <= ToDays(ts.day)

\* C11: when `await this.ready` resumes with a searching date that is not
\* after the creation date of the oldest entity, run ends at once: the loop
\* condition is false, no page or entity call is issued, saveToFile is not
\* called and the checkpoint file is left as it was found.
C11_CompletedCheckpointFixedPoint ==
  /\ [][(/\ pc = "await" /\ bootPc = "resolved" /\ pc' # "await"
          /\ DateNotAfter(date, oldestOrgDate))
         => (/\ pc' = "done"
             /\ rwPc' = "idle"
             /\ saves' = 0
             /\ file' = file
             /\ windows' = windows
             /\ << nextPageToScrape', date', organizations' >>
                  = << nextPageToScrape, date, organizations >>)]_vars
  /\ [](pc = "done" => rwPc = "idle" /\ DateNotAfter(date, oldestOrgDate))

\* A crawl started on the checkpoint of a completed crawl has ended without
\* fetching a window.
C11_Witness ==
  /\ pc = "done"
  /\ file0.present
  /\ file = file0
  /\ windows = {}
  /\ saves = 0
  /\ DateNotAfter(readFile(file0).date, oldestOrgDate)

\* The call sites of the window loop.
WindowSites == {"page", "repos", "profile", "events"}

\* C12: whatever requestWrapper throws for a call of the window loop, other
\* than RepoBlocked for an events fetch, ends run with that error: the
\* candidate being enriched is not appended, saveToFile is not called and the
\* checkpoint file stays the one the last completed step wrote.
C12_AbortKeepsCheckpoint ==
  /\ [][(/\ pc \in WindowSites
          /\ thrown' # NoError
          /\ ~(pc = "events" /\ thrown'.type = "RepoBlocked"))
         => (/\ pc' = "failed"
             /\ rwPc' = "idle"
             /\ saves' = 0
             /\ file' = file
             /\ organizations' = organizations)]_vars
  /\ [](pc = "failed"
          => /\ thrown # NoError
             /\ rwPc = "idle"
             /\ saves = 0
             /\ idx > 0 => items[idx].login \notin Logins(organizations))

\* The profile fetch of a candidate threw RepoBlocked after the run had
\* appended and persisted an entity.
C12_Witness ==
  /\ pc = "failed"
  /\ thrown.type = "RepoBlocked"
  /\ rawRepos # << >>
  /\ publicUser = NoUser
  /\ ~file0.present
  /\ file = saveToFile(nextPageToScrape, date, organizations)
  /\ Len(organizations) >= 1

\* Whether the last thing the catch block saw was raised for a resolved
\* response that reported no quota left.
ExhaustedSuccess == gLast = RateLimitError(gLast.reset)

RECURSIVE FieldSum(_, _)
\* The sum of the field f over the repositories rs as the remote serves
\* them, an absent value counting 0.
FieldSum(rs, f) ==
  IF rs = << >> THEN 0
  ELSE (IF Head(rs)[f] = << >> THEN 0 ELSE Head(rs)[f][1])
         + FieldSum(Tail(rs), f)

\* The repositories of "b" after their events fetches: 10 events, blocked,
\* 7 events.
EnrichedB ==
  LET rs == GetRepos(DataSet, "b")
  IN  << RepoWithEvents(rs[1], 10), RepoWithEvents(rs[2], 0),
         RepoWithEvents(rs[3], 7) >>

\* C14: every entity the run appended carries, in each of its five totals,
\* the sum of that field over all repositories of the entity: an absent
\* star, watcher, fork or open-issue count adds 0 and a blocked repository
\* adds 0 events (stars 3, absent, 5 and events 10, blocked, 7 give 8 and
\* 17).
C14_AggregationCorrect ==
  /\ \A i \in AppendedByRun :
       LET o == organizations[i]
           rs == GetRepos(remote, o.login)
       IN  /\ o.totalRepoStars = FieldSum(rs, "stargazers_count")
           /\ o.totalRepoWatchers = FieldSum(rs, "watchers_count")
           /\ o.totalRepoForks = FieldSum(rs, "forks_count")
           /\ o.totalRepoOpenIssues = FieldSum(rs, "open_issues_count")
           /\ o.totalRepoLast90DaysEvents = NonBlockedEvents(rs)
  /\ Organization(GetUser(DataSet, "b"), EnrichedB).totalRepoStars = 8
  /\ Organization(GetUser(DataSet, "b"), EnrichedB).totalRepoLast90DaysEvents = 17

\* The run appended "b": stars 3, absent, 5; watchers 1, 1, 1; forks absent,
\* 2, 0; open issues 4, 0, absent; events 10, blocked, 7.
C14_Witness ==
  \E i \in AppendedByRun :
    /\ organizations[i].login = "b"
    /\ organizations[i].totalRepoStars = 8
    /\ organizations[i].totalRepoWatchers = 3
    /\ organizations[i].totalRepoForks = 2
    /\ organizations[i].totalRepoOpenIssues = 4
    /\ organizations[i].totalRepoLast90DaysEvents = 17

\* C15: no repository-list, profile or events fetch is in flight for a
\* candidate whose login is in the accumulated list, and passing over such a
\* candidate writes no checkpoint: a step of run calls saveToFile once for
\* the entity it appends and once when it moves the cursor or the window,
\* and not otherwise.
C15_NoRequeryOfRecorded ==
  /\ [](pc \in {"repos", "profile", "events"}
          => items[idx].login \notin Logins(organizations))
  /\ [][pc' # "await"
         => saves' = (Len(organizations') - Len(organizations))
                       + (IF << nextPageToScrape', date' >>
                               # << nextPageToScrape, date >>
                          THEN 1 ELSE 0)]_vars

\* A page resolved whose first candidate was recorded before: the
\* repository list of the second one is being fetched and nothing was
\* written.
C15_Witness ==
  /\ pc = "repos"
  /\ idx = 2
  /\ items[1].login \in Logins(organizations)
  /\ saves = 0
  /\ file.organizations = organizations

\* C16: while a call of the window loop is in flight (or asleep on a rate
\* limit) and a checkpoint exists, the file holds the in-memory
\* nextPageToScrape, date and organizations, so the cursor and date on file
\* are those of the page the next page fetch asks for; the cursor is never
\* below 1.
C16_CheckpointConsistent ==
  /\ nextPageToScrape >= 1
  /\ (pc \in WindowSites /\ rwPc \in {"calling", "waiting"} /\ file.present)
       => /\ file = saveToFile(nextPageToScrape, date, organizations)
          /\ readFile(file).nextPageToScrape = nextPageToScrape
          /\ readFile(file).date = date
          /\ readFile(file).organizations = organizations

\* On the second page of the first window of a crawl started without a
\* checkpoint, with an entity appended, the repository list of a candidate
\* is being fetched.
C16_Witness ==
  /\ pc = "repos"
  /\ rwPc = "calling"
  /\ ~file0.present
  /\ file.present
  /\ nextPageToScrape = 2
  /\ Len(organizations) >= 1
  /\ file = saveToFile(nextPageToScrape, date, organizations)

\* C17: when the repository list of a candidate resolves empty the
\* candidate is not appended and no profile or events fetch is issued for
\* it: the loop goes on to the repository list of the next unrecorded
\* candidate without writing, or, at the end of the page, writes the next
\* cursor with the list as it was. Every entity the run appended has a
\* repository.
C17_NoRepositoriesSkipped ==
  /\ [](\A i \in AppendedByRun :
          GetRepos(remote, organizations[i].login) # << >>)
  /\ [][(ReposDone /\ GetRepos(remote, items[idx].login) = << >>)
         => /\ organizations' = organizations
            /\ pc' \notin {"profile", "events"}
            /\ IF \E k \in (idx + 1)..Len(items) :
                      items[k].login \notin Logins(organizations)
               THEN /\ pc' = "repos"
                    /\ items' = items
                    /\ idx' > idx
                    /\ saves' = 0
                    /\ file' = file
               ELSE /\ pc' \in {"page", "done"}
                    /\ saves' = 1
                    /\ file' = saveToFile(nextPageToScrape + 1, date,
                                          organizations)]_vars

\* "c", which owns no repository, was passed over: the repository list of
\* the candidate after it is being fetched, nothing was written and "c" is
\* not in the list.
C17_Witness ==
  /\ pc = "repos"
  /\ idx = 2
  /\ GetRepos(remote, items[1].login) = << >>
  /\ items[1].login \notin Logins(organizations)
  /\ saves = 0
  /\ publicUser = NoUser

\* C18: a step of run leaves the cursor alone, or raises it by exactly 1
\* within the window, or resets it to 1 with a new window. It is raised, and
\* written at once, only when every candidate of the current, non-empty,
\* page is recorded or owns no repository; the candidates of a page are
\* taken in page order.
C18_SequentialPaging ==
  [][pc' # "await"
     => LET its == SearchPage(remote, getPreviousWeek(date), date,
                              nextPageToScrape)
        IN  /\ (date' = date /\ nextPageToScrape' # nextPageToScrape)
                 => /\ nextPageToScrape' = nextPageToScrape + 1
                    /\ file' = saveToFile(nextPageToScrape + 1, date,
                                          organizations')
                    /\ its # << >>
                    /\ \A k \in 1..Len(its) :
                         \/ its[k].login \in Logins(organizations')
                         \/ GetRepos(remote, its[k].login) = << >>
            /\ date' # date => nextPageToScrape' = 1 /\ its = << >>
            /\ (pc \in {"repos", "profile", "events"}
                   /\ pc' \in {"repos", "profile", "events"})
                 => /\ idx' >= idx
                    /\ nextPageToScrape' = nextPageToScrape
            /\ pc' \in {"repos", "profile", "events"}
                 => items' = its]_vars

\* Two pages of the first window of a crawl started without a checkpoint
\* are finished and the third is being fetched.
C18_Witness ==
  /\ pc = "page"
  /\ rwPc = "calling"
  /\ nextPageToScrape = 3
  /\ date = Today
  /\ ~file0.present
  /\ file = saveToFile(3, Today, organizations)
  /\ Len(organizations) >= 3

\* The steps run and the calls it makes can take.
RunSteps ==
  Progress \/ RequestRetried \/ RequestRateLimited \/ BootFailed \/ RunFailed

\* C19: if no call fails for good (run does not reject and the bootstrap
\* settles) and, from some point on, no response is rate-limited and the
\* process is not killed, run reaches its end with the searching date not
\* after the creation date of the oldest entity and stays there: none of its
\* steps is enabled any more.
C19_Termination ==
  /\ ([](pc # "failed" /\ bootPc # "rejected")
        /\ <>[][~(RequestRateLimited \/ Restart)]_vars)
       => <>[](pc = "done" /\ DateNotAfter(date, oldestOrgDate))
  /\ [](pc = "done" => ~ENABLED RunSteps)

\* A crawl started without a checkpoint has gone through the windows ending
\* 2020-03-10, 2020-03-03 and 2020-02-25 and ended.
C19_Witness ==
  /\ pc = "done"
  /\ ~file0.present
  /\ restarted = 0
  /\ Cardinality(windows) = 3
  /\ date = <<2020, 2, 18>>
  /\ nextPageToScrape = 1
  /\ file = saveToFile(1, date, organizations)

\* The searching date the crawl started from.
D0 == readFile(file0).date

\* The day numbers from the creation day of the oldest entity up to D0.
Span == ToDays(oldestOrgDate.day)..ToDays(D0)

\* Whether a fetched window holds the day n, the window that ends on w being
\* read as the half-open range (w - 7 days, w].
InHalfOpenWindow(n) ==
  \E w \in windows : ToDays(w) - DaysPerWeek < n /\ n <= ToDays(w)

\* The same with the window read as the query states it, created:from..to
\* with both days included.
InClosedWindow(n) ==
  \E w \in windows : ToDays(w) - DaysPerWeek <= n /\ n <= ToDays(w)

\* Every account of the span that owns a repository is in the list of a
\* crawl that started without a checkpoint.
SpanRecorded ==
  ~file0.present
    => \A i \in 1..Len(remote) :
         (ToDays(remote[i].created_at.day) \in Span /\ remote[i].repos # << >>)
           => remote[i].login \in Logins(organizations)

====
